---- MODULE Spec2Model ----
(***************************************************************************)
(* Model of the screw.nvim collaboration server (src/screw_server.py).     *)
(*                                                                         *)
(* The database is the state: the three relations projects, notes and      *)
(* replies.  Every request handler is one action; each SQL statement of a  *)
(* handler is an operator on the relations, and a handler composes its     *)
(* statements in program order.  The connection is opened with             *)
(* autocommit=True, so the effects of the statements that ran before a     *)
(* failing statement stay in the database.                                 *)
(*                                                                         *)
(* Spec is the server that serves its requests one at a time.  ConcSpec is *)
(* the same handlers statement by statement, for requests that several     *)
(* server processes serve at once on one database.                         *)
(*                                                                         *)
(* The table definitions are not part of the source file.  The relations   *)
(* are the ones the statements of the handlers name: a column an INSERT    *)
(* does not name is NULL unless the source gives its default, notes.id and *)
(* replies.id are keys, projects.name is unique (the ON CONFLICT target),  *)
(* and deleting a note leaves its replies in place.                        *)
(***************************************************************************)
EXTENDS Integers, Sequences, FiniteSets, TLC

(***************************************************************************)
(* Bounds of the model.                                                    *)
(***************************************************************************)
\* number of requests in one behaviour that change the database
MaxWrites == 2

(***************************************************************************)
(* Values.                                                                 *)
(***************************************************************************)
\* SQL NULL / Python None, for the text columns
NULL == "NULL"
\* SQL NULL for notes.project_id (the serial ids of projects start at 1)
NoProject == 0

\* project names used by the clients; none of them has the syntax of a UUID
ProjectNames == {"demo", "other"}

\* UUIDs the server side generates (the column default of notes.id, uuid.uuid4()),
\* in the order they are drawn: each draw is a value never drawn before
GeneratedUuids == <<"s1", "s2", "s3", "s4", "s5", "s6", "s7", "s8">>

\* UUIDs chosen by clients: note ids sent to the bulk replace, reply ids, and
\* one well-formed id that no request ever stores
ClientNoteIds == {"c1"}
ClientReplyIds == {"r1"}
UnknownUuid == "c9"

RECURSIVE SeqRange(_)
SeqRange(s) == IF s = <<>> THEN {} ELSE {Head(s)} \cup SeqRange(Tail(s))

\* the strings the database accepts as input of type uuid
UuidStrings ==
    SeqRange(GeneratedUuids) \cup ClientNoteIds \cup ClientReplyIds \cup {UnknownUuid}

IsUuid(s) == s \in UuidStrings

(***************************************************************************)
(* Request bodies.  A body is the JSON object the client sent: a record    *)
(* whose domain is the set of keys that are present.                       *)
(***************************************************************************)
\* the fields of the ScrewNote model that have a default
ScrewNoteDefaults ==
    [id |-> NULL, timestamp |-> NULL, description |-> NULL, cwe |-> NULL,
     state |-> "todo", severity |-> NULL, source |-> "native",
     import_metadata |-> NULL]

ScrewNoteFields ==
    {"id", "file_path", "line_number", "author", "timestamp", "comment",
     "description", "cwe", "state", "severity", "source", "import_metadata",
     "project_name", "user_id"}

\* pydantic validation of a body into a ScrewNote: absent optional fields
\* take the defaults of the model
ScrewNote(body) ==
    [f \in ScrewNoteFields |->
        IF f \in DOMAIN body THEN body[f] ELSE ScrewNoteDefaults[f]]

\* the note of the spec's scenario: required fields only
MinimalBody(p) ==
    [project_name |-> p, file_path |-> "a.py", line_number |-> 10,
     author |-> "alice", comment |-> "check this", user_id |-> "u-alice"]

\* a note with every optional field present, the id and a timestamp of the
\* client among them
FullBody(p) ==
    [id |-> "c1", project_name |-> p, file_path |-> "b.py", line_number |-> 20,
     author |-> "bob", comment |-> "agreed", user_id |-> "u-bob",
     timestamp |-> "2020-01-01T00:00:00",
     description |-> "xss", cwe |-> "CWE-79", state |-> "vulnerable",
     severity |-> "high", source |-> "sarif-import",
     import_metadata |-> "sarif"]

NoteBodies == {MinimalBody(p) : p \in ProjectNames} \cup {FullBody("demo")}

\* the bodies sent to update a note (the project_name and user_id of the body
\* are required by the model and not written)
UpdateBodies == {MinimalBody("other"), FullBody("demo")}

\* the columns UPDATE writes from the body
MutableFields ==
    {"file_path", "line_number", "author", "comment", "description", "cwe",
     "state", "severity", "source"}

\* the fields of the ScrewReply model that have a default
ScrewReplyDefaults == [id |-> NULL, timestamp |-> NULL]

ScrewReplyFields == {"id", "parent_id", "author", "timestamp", "comment", "user_id"}

\* pydantic validation of a body into a ScrewReply
ScrewReply(body) ==
    [f \in ScrewReplyFields |->
        IF f \in DOMAIN body THEN body[f] ELSE ScrewReplyDefaults[f]]

\* reply bodies: without and with a client-chosen id (parent_id is a required
\* field of the body; the handler uses the path parameter instead)
ReplyBodies ==
    {[parent_id |-> "c9", author |-> "bob", user_id |-> "u-bob", comment |-> "agreed"],
     [id |-> "r1", parent_id |-> "c9", author |-> "alice", user_id |-> "u-alice",
      comment |-> "done"]}

\* note objects of the bulk replace (plain dicts, read with .get and [])
ReplaceNoteA ==
    [id |-> "c1", file_path |-> "a.py", line_number |-> 10,
     author |-> "alice", comment |-> "check this"]
\* no id; every optional key, and a timestamp older than the server's clock
ReplaceNoteB ==
    [file_path |-> "b.py", line_number |-> 20, author |-> "bob",
     user_id |-> "u-bob", timestamp |-> 0, comment |-> "agreed",
     description |-> "xss", cwe |-> "CWE-79", state |-> "vulnerable"]
ReplaceNotes == {ReplaceNoteA, ReplaceNoteB}

\* the lists of at most n distinct elements of S
RECURSIVE SeqsUpTo(_, _)
SeqsUpTo(S, n) ==
    IF n = 0 THEN {<<>>}
    ELSE LET shorter == SeqsUpTo(S, n - 1)
         IN  shorter \cup
             UNION {{Append(s, x) : x \in {y \in S : \A i \in 1..Len(s) : s[i] # y}} :
                        s \in {t \in shorter : Len(t) = n - 1}}

\* the lists of notes sent to the bulk replace
ReplaceLists == SeqsUpTo(ReplaceNotes, Cardinality(ReplaceNotes))

(***************************************************************************)
(* State.                                                                  *)
(***************************************************************************)
VARIABLES
    projects,   \* relation projects(id, name unique, path)
    notes,      \* relation notes
    replies,    \* relation replies
    clock,      \* the database clock (CURRENT_TIMESTAMP, datetime.now())
    nextUuid,   \* index of the next value of GeneratedUuids
    seen,       \* history: every note id that a row of notes ever had
    appended,   \* history: parent id -> number of replies appended with success
    resp,       \* the last request and its response
    tasks,      \* worker -> the request it serves and its position in the handler
    conns,      \* number of open database connections
    accepted,   \* number of requests that arrived at the workers
    done        \* history: the requests the workers completed, with their responses

vars == <<projects, notes, replies, clock, nextUuid, seen, appended, resp,
          tasks, conns, accepted, done>>

db == <<projects, notes, replies>>

(***************************************************************************)
(* Helpers of the read queries.                                            *)
(***************************************************************************)
RECURSIVE Perms(_)
Perms(S) ==
    IF S = {} THEN {<<>>}
    ELSE UNION {{<<x>> \o s : s \in Perms(S \ {x})} : x \in S}

\* the orders in which ORDER BY key [DESC] can return the rows S: rows with
\* equal keys come in any order
OrderBy(S, key, desc) ==
    {s \in Perms(S) :
        \A i \in 1..(Len(s) - 1) :
            IF desc THEN s[i][key] >= s[i + 1][key] ELSE s[i][key] <= s[i + 1][key]}

\* datetime.isoformat(): the textual form of a timestamp
IsoFormat(t) == [iso |-> t]

\* a JSON array / the SQL NULL that json_agg returns over no rows
JsonArray(S) == [isnull |-> FALSE, items |-> S]
JsonNull == [isnull |-> TRUE, items |-> {}]

\* json_agg(json_build_object(...)) FILTER (WHERE r.id IS NOT NULL) over the
\* rows of LEFT JOIN replies r ON n.id = r.parent_id, for the note n;
\* cols are the keys of json_build_object
JsonAggReplies(rs, n, cols) ==
    LET joined == {r \in rs : r.parent_id = n.id}
    IN  IF joined = {} THEN JsonNull
        ELSE JsonArray({[c \in cols |-> r[c]] : r \in joined})

Coalesce(v, default) == IF v.isnull THEN default ELSE v

ReplyColsShort == {"id", "parent_id", "author", "timestamp", "comment"}
ReplyColsLong == {"id", "parent_id", "author", "user_id", "timestamp", "comment"}

\* one row of a note query: n.* and the replies column
NoteWithReplies(rs, n, cols) ==
    [replies |-> Coalesce(JsonAggReplies(rs, n, cols), JsonArray({}))] @@ n

(***************************************************************************)
(* The read handlers.  Each returns the rows of its SELECT; the action     *)
(* returns them in one of the orders ORDER BY allows.                      *)
(***************************************************************************)
\* get_project_notes: FROM notes n JOIN projects p ON n.project_id = p.id
\* LEFT JOIN replies ... WHERE p.name = project_name, one row per (n.id, p.name)
SelectProjectNotes(ps, ns, rs, project_name) ==
    {[NoteWithReplies(rs, n, ReplyColsShort) EXCEPT !.project_name = p.name] :
        <<n, p>> \in {np \in ns \X ps :
                        np[1].project_id = np[2].id /\ np[2].name = project_name}}

\* the conversion loop of get_project_notes: timestamps to ISO strings
FormatProjectNote(row) ==
    [row EXCEPT !.timestamp = IsoFormat(@), !.updated_at = IsoFormat(@)]

\* the note lists get_project_notes can return
get_project_notes(ps, ns, rs, project_name) ==
    {[i \in 1..Len(s) |-> FormatProjectNote(s[i])] :
        s \in OrderBy(SelectProjectNotes(ps, ns, rs, project_name), "timestamp", TRUE)}

\* get_file_notes: WHERE n.project_name = %s AND n.file_path = %s
SelectFileNotes(ns, rs, project_name, path) ==
    {NoteWithReplies(rs, n, ReplyColsLong) :
        n \in {m \in ns : m.project_name = project_name /\ m.file_path = path}}

get_file_notes(ns, rs, project_name, path) ==
    OrderBy(SelectFileNotes(ns, rs, project_name, path), "line_number", FALSE)

\* get_line_notes: WHERE n.project_name = %s AND n.file_path = %s
\* AND n.line_number = %s
SelectLineNotes(ns, rs, project_name, path, line) ==
    {NoteWithReplies(rs, n, ReplyColsLong) :
        n \in {m \in ns : /\ m.project_name = project_name
                           /\ m.file_path = path
                           /\ m.line_number = line}}

get_line_notes(ns, rs, project_name, path, line) ==
    OrderBy(SelectLineNotes(ns, rs, project_name, path, line), "created_at", FALSE)

\* get_note_by_id: WHERE n.id = %s; a parameter that is no UUID makes the
\* statement fail, no row is Not-Found
get_note_by_id(ns, rs, note_id) ==
    IF ~IsUuid(note_id) THEN [status |-> 500]
    ELSE LET found == {n \in ns : n.id = note_id}
         IN  IF found = {} THEN [status |-> 404]
             ELSE LET row == NoteWithReplies(rs, CHOOSE n \in found : TRUE, ReplyColsShort)
                  IN  [status |-> 200,
                       note |-> [row EXCEPT !.timestamp = IsoFormat(@),
                                            !.updated_at = IsoFormat(@),
                                            !.created_at = IsoFormat(@)]]

\* get_project_stats: SELECT COUNT(*) FROM notes WHERE project_name = %s
get_project_stats(ns, project_name) ==
    Cardinality({n \in ns : n.project_name = project_name})

(***************************************************************************)
(* The writing handlers.  Each is an operator from the database (and the   *)
(* clock value now, the next generated UUIDs) to the HTTP status and the   *)
(* database the request leaves behind.                                     *)
(***************************************************************************)
\* dict.get(key, default)
Get(d, key, default) == IF key \in DOMAIN d THEN d[key] ELSE default

\* json.dumps of the import metadata
JsonDumps(x) == "json:" \o x

\* the id a serial column gives the next row of projects
NextProjectId(ps) == Cardinality(ps) + 1

\* a faulty variant of NewNoteId: the id of the body is stored when there is one
NewNoteIdFromBody(note, generated) == IF note.id # NULL THEN note.id ELSE generated

\* the id of the row create_note inserts: INSERT names no id column, so the
\* id is the generated column default, whatever id the body carries
NewNoteId(note, generated) == generated

\* a faulty variant of CreatedNoteRow: the timestamp of the body, when the
\* client sent one (a time before the server's clock started), is stored
CreatedNoteRowClientTime(note, project_id, uuid, now) ==
    [id |-> NewNoteId(note, uuid), project_id |-> project_id, project_name |-> NULL,
     file_path |-> note.file_path, line_number |-> note.line_number,
     author |-> note.author, user_id |-> NULL,
     timestamp |-> IF note.timestamp # NULL THEN 0 ELSE now,
     comment |-> note.comment, description |-> note.description,
     cwe |-> note.cwe, state |-> note.state, severity |-> note.severity,
     source |-> note.source,
     import_metadata |-> IF note.import_metadata # NULL
                         THEN JsonDumps(note.import_metadata) ELSE NULL,
     created_at |-> now, updated_at |-> now]

\* the row INSERT INTO notes of create_note stores: the columns it does not
\* name (project_name, user_id) stay NULL, id and created_at take their
\* column defaults
CreatedNoteRow(note, project_id, uuid, now) ==
    [id |-> NewNoteId(note, uuid), project_id |-> project_id, project_name |-> NULL,
     file_path |-> note.file_path, line_number |-> note.line_number,
     author |-> note.author, user_id |-> NULL, timestamp |-> now,
     comment |-> note.comment, description |-> note.description,
     cwe |-> note.cwe, state |-> note.state, severity |-> note.severity,
     source |-> note.source,
     import_metadata |-> IF note.import_metadata # NULL
                         THEN JsonDumps(note.import_metadata) ELSE NULL,
     created_at |-> now, updated_at |-> now]

\* create_note
create_note(ps, ns, body, uuid, now) ==
    LET note == ScrewNote(body)
        project_row == {p \in ps : p.name = note.project_name /\ p.path = "/"}
        \* INSERT INTO projects (name, path): name is unique
        conflict == project_row = {} /\ \E p \in ps : p.name = note.project_name
        project_id == IF project_row = {} THEN NextProjectId(ps)
                      ELSE (CHOOSE p \in project_row : TRUE).id
        ps2 == IF project_row = {}
               THEN ps \cup {[id |-> project_id, name |-> note.project_name, path |-> "/"]}
               ELSE ps
    IN  IF conflict THEN [status |-> 500, projects |-> ps, notes |-> ns]
        ELSE [status |-> 200, projects |-> ps2,
              notes |-> ns \cup {CreatedNoteRow(note, project_id, uuid, now)},
              note |-> [note EXCEPT !.id = NewNoteId(note, uuid)]]

\* a faulty variant of UpdatedNoteRow: user_id is in the SET list too
UpdatedNoteRowWithUser(row, note, now) ==
    [row EXCEPT !.file_path = note.file_path, !.line_number = note.line_number,
                !.author = note.author, !.comment = note.comment,
                !.description = note.description, !.cwe = note.cwe,
                !.state = note.state, !.severity = note.severity,
                !.source = note.source, !.user_id = note.user_id,
                !.updated_at = now]

\* the SET list of UPDATE notes in update_note
UpdatedNoteRow(row, note, now) ==
    [row EXCEPT !.file_path = note.file_path, !.line_number = note.line_number,
                !.author = note.author, !.comment = note.comment,
                !.description = note.description, !.cwe = note.cwe,
                !.state = note.state, !.severity = note.severity,
                !.source = note.source, !.updated_at = now]

\* a faulty variant of RowsWithId: the WHERE clause is missing
RowsWithoutWhere(ns, note_id) == ns

\* the rows of notes selected by WHERE id = %s
RowsWithId(ns, note_id) == {n \in ns : n.id = note_id}

\* update_note.  The 404 raised inside try is caught by except Exception and
\* raised again, since its text carries the detail "Note not found"; the
\* same holds in delete_note, get_note_by_id and create_reply.
update_note(ns, note_id, body, now) ==
    LET note == ScrewNote(body)
        matched == RowsWithId(ns, note_id)
    IN  IF ~IsUuid(note_id) THEN [status |-> 500, notes |-> ns]
        ELSE IF matched = {} THEN [status |-> 404, notes |-> ns]
        ELSE [status |-> 200,
              notes |-> (ns \ matched) \cup {UpdatedNoteRow(n, note, now) : n \in matched},
              note |-> [note EXCEPT !.id = note_id]]

\* a faulty variant of DeleteById: the notes of the project of the note go with it
DeleteByIdAndProject(ns, note_id) ==
    {n \in ns : \A m \in RowsWithId(ns, note_id) :
                    n.project_name # m.project_name \/ n.project_id # m.project_id}

\* DELETE FROM notes WHERE id = %s
DeleteById(ns, note_id) == ns \ RowsWithId(ns, note_id)

\* delete_note
delete_note(ns, note_id) ==
    IF ~IsUuid(note_id) THEN [status |-> 500, notes |-> ns]
    ELSE IF DeleteById(ns, note_id) = ns THEN [status |-> 404, notes |-> ns]
    ELSE [status |-> 200, notes |-> DeleteById(ns, note_id)]

\* the replies after rows of notes were deleted: no handler deletes a reply
\* and the deletion of a note does not cascade to replies
RepliesAfterDelete(rs, ns) == rs

\* a faulty variant of DeleteByProjectName: the DELETE is part of a transaction
\* that is still open, and no other connection sees its effect
DeleteNotCommitted(ns, project_name) == ns

\* a faulty variant of DeleteByProjectName: the DELETE has no WHERE clause
DeleteEveryNote(ns, project_name) == {}

\* DELETE FROM notes WHERE project_name = %s
DeleteByProjectName(ns, project_name) == {n \in ns : n.project_name # project_name}

\* clear_project_notes
clear_project_notes(ns, project_name) ==
    [status |-> 200, notes |-> DeleteByProjectName(ns, project_name),
     deleted_count |-> Cardinality(ns) - Cardinality(DeleteByProjectName(ns, project_name))]

\* a faulty variant of ParentExists: the check of the parent is skipped
ParentNotChecked(ns, parent_id) == TRUE

\* SELECT id FROM notes WHERE id = %s returned a row
ParentExists(ns, parent_id) == \E n \in ns : n.id = parent_id

\* the row INSERT INTO replies of create_reply stores: id and timestamp are
\* generated when the body has none
ReplyRow(parent_id, reply, uuid, now) ==
    [id |-> IF reply.id = NULL THEN uuid ELSE reply.id,
     parent_id |-> parent_id, author |-> reply.author, user_id |-> reply.user_id,
     timestamp |-> IF reply.timestamp = NULL THEN now ELSE reply.timestamp,
     comment |-> reply.comment]

\* INSERT INTO replies raises when the id is already a key of the relation;
\* a parent_id that matches no note is stored as it is
ReplyInsertRaises(ns, rs, row) == \E r \in rs : r.id = row.id

\* create_reply
create_reply(ns, rs, parent_id, body, uuid, now) ==
    LET row == ReplyRow(parent_id, ScrewReply(body), uuid, now)
    IN  IF ~IsUuid(parent_id) THEN [status |-> 500, replies |-> rs]
        ELSE IF ~ParentExists(ns, parent_id) THEN [status |-> 404, replies |-> rs]
        ELSE IF ReplyInsertRaises(ns, rs, row) THEN [status |-> 500, replies |-> rs]
        ELSE [status |-> 200, replies |-> rs \cup {row}, reply |-> row]

\* a faulty variant of ReplacedNoteRow: the INSERT does not name the column
\* project_name
ReplacedNoteRowWithoutProject(note_data, project_name, uuid, now) ==
    [id |-> Get(note_data, "id", uuid), project_id |-> NoProject,
     project_name |-> NULL,
     file_path |-> note_data["file_path"], line_number |-> note_data["line_number"],
     author |-> note_data["author"],
     user_id |-> Get(note_data, "user_id", note_data["author"]),
     timestamp |-> Get(note_data, "timestamp", now),
     comment |-> note_data["comment"],
     description |-> Get(note_data, "description", NULL),
     cwe |-> Get(note_data, "cwe", NULL),
     state |-> Get(note_data, "state", "todo"),
     severity |-> NULL, source |-> "native", import_metadata |-> NULL,
     created_at |-> now, updated_at |-> now]

\* the row one INSERT INTO notes of replace_all_notes stores: the columns it
\* does not name stay NULL (project_id, severity, import_metadata) or take
\* their column defaults (source, created_at, updated_at)
ReplacedNoteRow(note_data, project_name, uuid, now) ==
    [id |-> Get(note_data, "id", uuid), project_id |-> NoProject,
     project_name |-> project_name,
     file_path |-> note_data["file_path"], line_number |-> note_data["line_number"],
     author |-> note_data["author"],
     user_id |-> Get(note_data, "user_id", note_data["author"]),
     timestamp |-> Get(note_data, "timestamp", now),
     comment |-> note_data["comment"],
     description |-> Get(note_data, "description", NULL),
     cwe |-> Get(note_data, "cwe", NULL),
     state |-> Get(note_data, "state", "todo"),
     severity |-> NULL, source |-> "native", import_metadata |-> NULL,
     created_at |-> now, updated_at |-> now]

\* the insert loop of replace_all_notes over the notes list[i..]: an INSERT
\* whose id is already a key of notes raises, and the rows inserted before
\* it stay (autocommit)
RECURSIVE InsertNotes(_, _, _, _, _, _)
InsertNotes(ns, project_name, list, i, k, now) ==
    IF i > Len(list) THEN [status |-> 200, notes |-> ns, drawn |-> i - 1]
    ELSE LET row == ReplacedNoteRow(list[i], project_name, GeneratedUuids[k + i - 1], now)
         IN  IF \E n \in ns : n.id = row.id
             THEN [status |-> 500, notes |-> ns, drawn |-> i]
             ELSE InsertNotes(ns \cup {row}, project_name, list, i + 1, k, now)

\* INSERT INTO projects (name) VALUES (%s) ON CONFLICT (name) DO NOTHING
EnsureProject(ps, project_name) ==
    IF \E p \in ps : p.name = project_name THEN ps
    ELSE ps \cup {[id |-> NextProjectId(ps), name |-> project_name, path |-> NULL]}

\* replace_all_notes: data is the request body, k the index of the next
\* generated UUID
replace_all_notes(ps, ns, project_name, data, k, now) ==
    LET cleared == DeleteByProjectName(ns, project_name)
        list == Get(data, "notes", <<>>)
        inserted == InsertNotes(cleared, project_name, list, 1, k, now)
    IN  [status |-> inserted.status, projects |-> EnsureProject(ps, project_name),
         notes |-> inserted.notes, drawn |-> inserted.drawn, count |-> Len(list)]

\* the bodies of the bulk replace: {"notes": [...]} and {} (no notes key)
ReplaceBodies == {[notes |-> l] : l \in ReplaceLists} \cup {[other |-> <<>>]}

(***************************************************************************)
(* Routing.  The application matches a request against its routes in the   *)
(* order the decorators registered them and calls the first whose method   *)
(* and path pattern match.                                                 *)
(***************************************************************************)
\* the routes with their patterns; "{}" is a path parameter
Routes ==
    <<[method |-> "GET", path |-> <<"api", "health">>, handler |-> "health_check"],
      [method |-> "GET", path |-> <<"api", "notes", "{}">>, handler |-> "get_project_notes"],
      [method |-> "GET", path |-> <<"api", "notes", "{}", "file">>, handler |-> "get_file_notes"],
      [method |-> "GET", path |-> <<"api", "notes", "{}", "line">>, handler |-> "get_line_notes"],
      [method |-> "GET", path |-> <<"api", "notes", "note", "{}">>, handler |-> "get_note_by_id"],
      [method |-> "POST", path |-> <<"api", "notes">>, handler |-> "create_note"],
      [method |-> "PUT", path |-> <<"api", "notes", "{}">>, handler |-> "update_note"],
      [method |-> "DELETE", path |-> <<"api", "notes", "{}">>, handler |-> "delete_note"],
      [method |-> "DELETE", path |-> <<"api", "notes", "{}">>, handler |-> "clear_project_notes"],
      [method |-> "POST", path |-> <<"api", "notes", "{}", "replies">>, handler |-> "create_reply"],
      [method |-> "PUT", path |-> <<"api", "notes", "{}", "replace">>, handler |-> "replace_all_notes"],
      [method |-> "GET", path |-> <<"api", "stats", "{}">>, handler |-> "get_project_stats"]>>

Matches(route, method, path) ==
    /\ route.method = method
    /\ Len(route.path) = Len(path)
    /\ \A i \in 1..Len(path) : route.path[i] = "{}" \/ route.path[i] = path[i]

\* the handler that serves the request: the first route that matches
Route(method, path) ==
    LET hits == {i \in 1..Len(Routes) : Matches(Routes[i], method, path)}
    IN  IF hits = {} THEN "not_found"
        ELSE Routes[CHOOSE i \in hits : \A j \in hits : i <= j].handler

(***************************************************************************)
(* The state machine.                                                      *)
(***************************************************************************)
NoteIdUniverse == SeqRange(GeneratedUuids) \cup ClientNoteIds \cup {UnknownUuid}

\* the server processes that share the database (uvicorn.run starts one
\* process; a deployment runs one or more of them on the same DATABASE_URL).
\* A process serves one request at a time, because no handler awaits between
\* its statements; requests of different processes interleave.
Workers == {1, 2}

\* a worker that serves no request
Idle == [pc |-> "idle"]

Init ==
    /\ projects = {}
    /\ notes = {}
    /\ replies = {}
    /\ clock = 0
    /\ nextUuid = 1
    /\ seen = {}
    /\ appended = [i \in NoteIdUniverse |-> 0]
    /\ resp = [op |-> "none", status |-> 0]
    /\ tasks = [w \in Workers |-> Idle]
    /\ conns = 0
    /\ accepted = 0
    /\ done = {}

\* the time a request reads from datetime.now() / CURRENT_TIMESTAMP: later
\* than every timestamp the server stored before
now == clock + 1

\* the UUID the next draw returns
uuid == GeneratedUuids[nextUuid]

\* the note ids a client names in a request: the id of any note that exists
\* or existed, and a well-formed id that was never stored
RequestIds == seen \cup {UnknownUuid}

\* a request ends: the database it leaves, the UUIDs it drew, its response.
\* The clock counts the requests that changed the database or drew a UUID.
Finish(ps, ns, rs, drawn, response) ==
    LET changed == <<ps, ns, rs>> # db \/ drawn > 0
    IN  /\ changed => clock < MaxWrites
        /\ nextUuid + drawn - 1 <= Len(GeneratedUuids)
        /\ projects' = ps
        /\ notes' = ns
        /\ replies' = rs
        /\ clock' = IF changed THEN clock + 1 ELSE clock
        /\ nextUuid' = nextUuid + drawn
        /\ seen' = seen \cup {n.id : n \in ns}
        /\ resp' = response
        /\ UNCHANGED <<tasks, conns, accepted, done>>

\* the part of a handler's result that goes to the client
Response(r) == [k \in DOMAIN r \ {"projects", "notes", "replies", "drawn"} |-> r[k]]

\* a read request ends
Answer(response) ==
    /\ resp' = response
    /\ UNCHANGED <<projects, notes, replies, clock, nextUuid, seen, appended,
                   tasks, conns, accepted, done>>

GetProjectNotes ==
    \E p \in ProjectNames : \E s \in get_project_notes(projects, notes, replies, p) :
        Answer([op |-> "get_project_notes", project_name |-> p, status |-> 200,
                notes |-> s])

GetFileNotes ==
    \E p \in ProjectNames, path \in {"a.py", "b.py"} :
        \E s \in get_file_notes(notes, replies, p, path) :
            Answer([op |-> "get_file_notes", project_name |-> p, path |-> path,
                    status |-> 200, notes |-> s])

GetLineNotes ==
    \E p \in ProjectNames, c \in {<<"a.py", 10>>, <<"b.py", 20>>} :
        \E s \in get_line_notes(notes, replies, p, c[1], c[2]) :
            Answer([op |-> "get_line_notes", project_name |-> p, path |-> c[1],
                    line |-> c[2], status |-> 200, notes |-> s])

GetNoteById ==
    \E id \in RequestIds :
        Answer([op |-> "get_note_by_id", note_id |-> id]
               @@ get_note_by_id(notes, replies, id))

GetProjectStats ==
    \E p \in ProjectNames :
        Answer([op |-> "get_project_stats", project_name |-> p, status |-> 200,
                total_notes |-> get_project_stats(notes, p)])

CreateNote ==
    \E body \in NoteBodies :
        LET r == create_note(projects, notes, body, uuid, now)
        IN  /\ Finish(r.projects, r.notes, replies,
                      IF r.status = 200 THEN 1 ELSE 0,
                      [op |-> "create_note", body |-> body] @@ Response(r))
            /\ UNCHANGED appended

UpdateNote ==
    \E id \in RequestIds, body \in UpdateBodies :
        LET r == update_note(notes, id, body, now)
        IN  /\ Finish(projects, r.notes, replies, 0,
                      [op |-> "update_note", note_id |-> id, body |-> body] @@ Response(r))
            /\ UNCHANGED appended

DeleteNote ==
    \E id \in RequestIds :
        LET r == delete_note(notes, id)
        IN  /\ Finish(projects, r.notes, RepliesAfterDelete(replies, r.notes), 0,
                      [op |-> "delete_note", via |-> "call", note_id |-> id] @@ Response(r))
            /\ UNCHANGED appended

ClearProjectNotes ==
    \E p \in ProjectNames :
        LET r == clear_project_notes(notes, p)
        IN  /\ Finish(projects, r.notes, RepliesAfterDelete(replies, r.notes), 0,
                      [op |-> "clear_project_notes", via |-> "call",
                       project_name |-> p] @@ Response(r))
            /\ UNCHANGED appended

\* the HTTP request a client sends to clear a project:
\* DELETE /api/notes/{project_name}, served by the handler the router picks
ClearProjectRequest ==
    \E p \in ProjectNames :
        LET handler == Route("DELETE", <<"api", "notes", p>>)
            r == IF handler = "clear_project_notes" THEN clear_project_notes(notes, p)
                 ELSE delete_note(notes, p)
        IN  /\ handler \in {"clear_project_notes", "delete_note"}
            /\ Finish(projects, r.notes, RepliesAfterDelete(replies, r.notes), 0,
                      [op |-> handler, via |-> "http", project_name |-> p,
                       note_id |-> p] @@ Response(r))
            /\ UNCHANGED appended

CreateReply ==
    \E id \in RequestIds, body \in ReplyBodies :
        LET r == create_reply(notes, replies, id, body, uuid, now)
            drawn == IF r.status = 200 /\ "id" \notin DOMAIN body THEN 1 ELSE 0
        IN  /\ Finish(projects, notes, r.replies, drawn,
                      [op |-> "create_reply", parent_id |-> id, body |-> body] @@ Response(r))
            /\ appended' = IF r.status = 200
                           THEN [appended EXCEPT ![id] = @ + 1] ELSE appended

ReplaceAllNotes ==
    \E p \in ProjectNames, data \in ReplaceBodies :
        /\ nextUuid + Len(Get(data, "notes", <<>>)) - 1 <= Len(GeneratedUuids)
        /\ LET r == replace_all_notes(projects, notes, p, data, nextUuid, now)
           IN  /\ Finish(r.projects, r.notes, RepliesAfterDelete(replies, r.notes), r.drawn,
                         [op |-> "replace_all_notes", project_name |-> p,
                          data |-> data] @@ Response(r))
               /\ UNCHANGED appended

Next ==
    \/ GetProjectNotes
    \/ GetFileNotes
    \/ GetLineNotes
    \/ GetNoteById
    \/ GetProjectStats
    \/ CreateNote
    \/ UpdateNote
    \/ DeleteNote
    \/ ClearProjectNotes
    \/ ClearProjectRequest
    \/ CreateReply
    \/ ReplaceAllNotes

Spec == Init /\ [][Next]_vars

(***************************************************************************)
(* The statement-level state machine.  Every handler opens a connection    *)
(* with autocommit on, so each statement it executes is committed on its   *)
(* own; the statements of requests served by different workers interleave. *)
(* A statement can raise (a persistence fault): it then changes nothing,   *)
(* and the handler answers 500 after its finally block.                    *)
(***************************************************************************)
\* number of requests that arrive in one behaviour
MaxRequests == 3

\* number of faults (a statement or psycopg.connect that raises) on record
MaxFaults == 1

\* the requests the workers serve
ConcRequests ==
    {[op |-> "replace_all_notes", project_name |-> "demo",
      data |-> [notes |-> <<ReplaceNoteA, ReplaceNoteB>>]],
     [op |-> "replace_all_notes", project_name |-> "demo",
      data |-> [notes |-> <<ReplaceNoteB>>]],
     [op |-> "create_reply", parent_id |-> "c1",
      body |-> [parent_id |-> "c9", author |-> "bob", user_id |-> "u-bob",
                comment |-> "agreed"]],
     [op |-> "delete_note", note_id |-> "c1"],
     [op |-> "clear_project_notes", project_name |-> "demo"],
     [op |-> "get_project_stats", project_name |-> "demo"]}

\* the first statement of each handler, after get_db_connection
FirstStatement(op) ==
    CASE op = "replace_all_notes" -> "delete"
      [] op = "create_reply" -> "select"
      [] op = "delete_note" -> "delete"
      [] op = "clear_project_notes" -> "delete"
      [] op = "get_project_stats" -> "count"

InFlight == {w \in Workers : tasks[w] # Idle}

\* the faults on record: the faulted responses and the faulted requests in
\* progress
Faults ==
    Cardinality({r \in done : r.fault})
        + Cardinality({w \in InFlight : tasks[w].fault})

\* worker w is about to execute statement pc of handler op
At(w, op, pc) == tasks[w].pc = pc /\ tasks[w].req.op = op

\* the task of worker w goes on, with the fields of changes replaced
Goto(w, changes) == tasks' = [tasks EXCEPT ![w] = changes @@ @]

\* a faulty variant of CloseConnection: the connection is closed only when no
\* exception is on its way
CloseUnlessRaised(open, status) == IF status = 200 THEN open - 1 ELSE open

\* finally: cur.close(); conn.close(), whatever the outcome of the handler
CloseConnection(open, status) == open - 1

\* a request arrives and goes to the first idle worker (the workers are
\* alike); get_db_connection() succeeds
Connect(w) ==
    /\ tasks[w] = Idle
    /\ \A v \in Workers : tasks[v] = Idle => w <= v
    /\ accepted < MaxRequests
    /\ \E req \in ConcRequests :
        tasks' = [tasks EXCEPT ![w] =
                    [pc |-> FirstStatement(req.op), req |-> req,
                     i |-> 1, ids |-> {}, rowcount |-> 0, status |-> 200,
                     fault |-> FALSE, connected |-> TRUE]]
    /\ conns' = conns + 1
    /\ accepted' = accepted + 1
    /\ UNCHANGED <<projects, notes, replies, clock, nextUuid, seen, appended,
                   resp, done>>

\* a request arrives and psycopg.connect raises: get_db_connection answers
\* 500, and no connection was opened
ConnectFails(w) ==
    /\ tasks[w] = Idle
    /\ \A v \in Workers : tasks[v] = Idle => w <= v
    /\ accepted < MaxRequests
    /\ Faults < MaxFaults
    /\ \E req \in ConcRequests :
        done' = done \cup {[req |-> req, ids |-> {},
                            rowcount |-> 0, status |-> 500, fault |-> TRUE,
                            connected |-> FALSE]}
    /\ accepted' = accepted + 1
    /\ UNCHANGED <<projects, notes, replies, clock, nextUuid, seen, appended,
                   resp, tasks, conns>>

\* delete_note: DELETE FROM notes WHERE id = %s, 404 when rowcount is 0
DeleteNoteStatement(w) ==
    /\ At(w, "delete_note", "delete")
    /\ LET r == delete_note(notes, tasks[w].req.note_id)
       IN  /\ notes' = r.notes
           /\ replies' = RepliesAfterDelete(replies, r.notes)
           /\ Goto(w, [pc |-> "close", status |-> r.status,
                       rowcount |-> Cardinality(notes \ r.notes)])
    /\ UNCHANGED <<projects, clock, nextUuid, seen, appended, resp, conns, accepted, done>>

\* clear_project_notes: DELETE FROM notes WHERE project_name = %s
ClearProjectStatement(w) ==
    /\ At(w, "clear_project_notes", "delete")
    /\ LET r == clear_project_notes(notes, tasks[w].req.project_name)
       IN  /\ notes' = r.notes
           /\ replies' = RepliesAfterDelete(replies, r.notes)
           /\ Goto(w, [pc |-> "close", status |-> r.status,
                       rowcount |-> r.deleted_count])
    /\ UNCHANGED <<projects, clock, nextUuid, seen, appended, resp, conns, accepted, done>>

\* get_project_stats: SELECT COUNT(*) FROM notes WHERE project_name = %s
CountStatement(w) ==
    /\ At(w, "get_project_stats", "count")
    /\ Goto(w, [pc |-> "close",
                rowcount |-> get_project_stats(notes, tasks[w].req.project_name)])
    /\ UNCHANGED <<projects, notes, replies, clock, nextUuid, seen, appended,
                   resp, conns, accepted, done>>

\* create_reply: SELECT id FROM notes WHERE id = %s, 404 when no row comes
SelectParent(w) ==
    /\ At(w, "create_reply", "select")
    /\ IF ~IsUuid(tasks[w].req.parent_id)
       THEN Goto(w, [pc |-> "close", status |-> 500])
       ELSE IF ~ParentExists(notes, tasks[w].req.parent_id)
       THEN Goto(w, [pc |-> "close", status |-> 404])
       ELSE Goto(w, [pc |-> "insert"])
    /\ UNCHANGED <<projects, notes, replies, clock, nextUuid, seen, appended,
                   resp, conns, accepted, done>>

\* create_reply: the id and the timestamp are generated, then INSERT INTO
\* replies
InsertReply(w) ==
    /\ At(w, "create_reply", "insert")
    /\ LET req == tasks[w].req
           drawn == IF "id" \in DOMAIN req.body THEN 0 ELSE 1
           row == ReplyRow(req.parent_id, ScrewReply(req.body), uuid, now)
       IN  /\ nextUuid + drawn - 1 <= Len(GeneratedUuids)
           /\ nextUuid' = nextUuid + drawn
           /\ IF ReplyInsertRaises(notes, replies, row)
              THEN /\ Goto(w, [pc |-> "close", status |-> 500])
                   /\ UNCHANGED <<replies, clock, appended>>
              ELSE /\ replies' = replies \cup {row}
                   /\ clock' = clock + 1
                   /\ appended' = [appended EXCEPT ![req.parent_id] = @ + 1]
                   /\ Goto(w, [pc |-> "close", ids |-> {row.id}])
    /\ UNCHANGED <<projects, notes, seen, resp, conns, accepted, done>>

\* replace_all_notes: DELETE FROM notes WHERE project_name = %s
DeleteOldNotes(w) ==
    /\ At(w, "replace_all_notes", "delete")
    /\ LET cleared == DeleteByProjectName(notes, tasks[w].req.project_name)
       IN  /\ notes' = cleared
           /\ replies' = RepliesAfterDelete(replies, cleared)
           /\ Goto(w, [pc |-> "project", rowcount |-> Cardinality(notes \ cleared)])
    /\ UNCHANGED <<projects, clock, nextUuid, seen, appended, resp, conns, accepted, done>>

\* replace_all_notes: INSERT INTO projects ... ON CONFLICT (name) DO NOTHING;
\* the loop follows, or the return when the list is empty
InsertProject(w) ==
    /\ At(w, "replace_all_notes", "project")
    /\ projects' = EnsureProject(projects, tasks[w].req.project_name)
    /\ Goto(w, [pc |-> IF Get(tasks[w].req.data, "notes", <<>>) = <<>>
                       THEN "close" ELSE "insert"])
    /\ UNCHANGED <<notes, replies, clock, nextUuid, seen, appended, resp, conns, accepted, done>>

\* replace_all_notes: one turn of the loop, INSERT INTO notes of element i
InsertNote(w) ==
    /\ At(w, "replace_all_notes", "insert")
    /\ LET req == tasks[w].req
           list == Get(req.data, "notes", <<>>)
           i == tasks[w].i
           row == ReplacedNoteRow(list[i], req.project_name, uuid, now)
       IN  /\ nextUuid <= Len(GeneratedUuids)
           /\ nextUuid' = nextUuid + 1
           /\ IF \E n \in notes : n.id = row.id
              THEN /\ Goto(w, [pc |-> "close", status |-> 500])
                   /\ UNCHANGED <<notes, clock, seen>>
              ELSE /\ notes' = notes \cup {row}
                   /\ clock' = clock + 1
                   /\ seen' = seen \cup {row.id}
                   /\ Goto(w, [pc |-> IF i = Len(list) THEN "close" ELSE "insert",
                               i |-> i + 1, ids |-> tasks[w].ids \cup {row.id}])
    /\ UNCHANGED <<projects, replies, appended, resp, conns, accepted, done>>

\* the statement a worker is about to execute raises: nothing is written,
\* and what the earlier statements committed stays
Fault(w) ==
    /\ tasks[w].pc \notin {"idle", "close"}
    /\ Faults < MaxFaults
    /\ Goto(w, [pc |-> "close", status |-> 500, fault |-> TRUE])
    /\ UNCHANGED <<projects, notes, replies, clock, nextUuid, seen, appended,
                   resp, conns, accepted, done>>

\* the handler leaves through its finally block and the response is sent
Close(w) ==
    /\ tasks[w].pc = "close"
    /\ conns' = CloseConnection(conns, tasks[w].status)
    /\ done' = done \cup {[k \in DOMAIN tasks[w] \ {"pc", "i"} |-> tasks[w][k]]}
    /\ tasks' = [tasks EXCEPT ![w] = Idle]
    /\ UNCHANGED <<projects, notes, replies, clock, nextUuid, seen, appended, resp,
                   accepted>>

ConcNext ==
    \E w \in Workers :
        \/ Connect(w)
        \/ ConnectFails(w)
        \/ DeleteNoteStatement(w)
        \/ ClearProjectStatement(w)
        \/ CountStatement(w)
        \/ SelectParent(w)
        \/ InsertReply(w)
        \/ DeleteOldNotes(w)
        \/ InsertProject(w)
        \/ InsertNote(w)
        \/ Fault(w)
        \/ Close(w)

ConcSpec == Init /\ [][ConcNext]_vars

(***************************************************************************)
(* Vocabulary of the properties.                                           *)
(***************************************************************************)
NoteIds(ns) == {n.id : n \in ns}

\* the notes that belong to the project named name, by either relation the
\* handlers use: the foreign key project_id or the column project_name
NotesOfProject(ps, ns, name) ==
    {n \in ns : \/ n.project_name = name
                \/ \E p \in ps : p.id = n.project_id /\ p.name = name}

\* the names of the projects a note belongs to
ProjectsOfNote(ps, n) == {name \in ProjectNames : n \in NotesOfProject(ps, {n}, name)}

(***************************************************************************)
(* C1: after create(note) succeeds for project P, file F and line L, and   *)
(* no other note exists at (P, F, L), listByLine(P, F, L) returns exactly  *)
(* one note, whose identifier is the one create returned.                  *)
(***************************************************************************)
C1_CreateThenListByLine ==
    (/\ resp.op = "create_note"
     /\ resp.status = 200
     /\ \A n \in NotesOfProject(projects, notes, resp.note.project_name) :
            (n.file_path = resp.note.file_path /\ n.line_number = resp.note.line_number)
                => n.id = resp.note.id)
    => \A s \in get_line_notes(notes, replies, resp.note.project_name,
                                resp.note.file_path, resp.note.line_number) :
            Len(s) = 1 /\ s[1].id = resp.note.id

(***************************************************************************)
(* C2: round trip.  After replaceAll(P, notes) succeeds for notes with     *)
(* distinct identifiers, listByProject(P) returns as many notes as were    *)
(* sent, and every note sent is returned with the content that was sent.   *)
(***************************************************************************)
\* the returned row carries what the client sent in note_data
SameContent(row, note_data) ==
    \A k \in DOMAIN note_data :
        IF k = "timestamp" THEN row[k] = IsoFormat(note_data[k])
        ELSE row[k] = note_data[k]

SentNotes == Get(resp.data, "notes", <<>>)

DistinctIds(list) ==
    \A i, j \in 1..Len(list) :
        (i # j /\ "id" \in DOMAIN list[i] /\ "id" \in DOMAIN list[j])
            => list[i].id # list[j].id

C2_ReplaceAllRoundTrip ==
    (resp.op = "replace_all_notes" /\ resp.status = 200 /\ DistinctIds(SentNotes))
    => \A s \in get_project_notes(projects, notes, replies, resp.project_name) :
            /\ Len(s) = Len(SentNotes)
            /\ \A i \in 1..Len(SentNotes) :
                    \E j \in 1..Len(s) : SameContent(s[j], SentNotes[i])

(***************************************************************************)
(* C3: DELETE /api/notes/{project} for a project that has no notes (or     *)
(* does not exist) is answered with status 200 and a deleted count of 0.   *)
(***************************************************************************)
C3_ClearEmptyProjectOverHttp ==
    [][\A p \in ProjectNames :
          (/\ NotesOfProject(projects, notes, p) = {}
           /\ resp'.op \in {"delete_note", "clear_project_notes"}
           /\ resp'.via = "http"
           /\ resp'.project_name = p)
          => (/\ resp'.status = 200
              /\ "deleted_count" \in DOMAIN resp'
              /\ resp'.deleted_count = 0)]_vars

(***************************************************************************)
(* C4: the first delete(noteId) of an existing note answers success and    *)
(* removes exactly that note, every other note being unchanged; a second   *)
(* delete(noteId) right after it answers Not-Found (404) and changes       *)
(* nothing, as does any delete of an id that no note has.                  *)
(***************************************************************************)
C4_DeleteOnceThenNotFound ==
    [][(resp'.op = "delete_note" /\ resp'.via = "call")
        => /\ IF resp'.note_id \in NoteIds(notes)
              THEN /\ resp'.status = 200
                   /\ notes' = {n \in notes : n.id # resp'.note_id}
                   /\ Cardinality(notes') = Cardinality(notes) - 1
              ELSE /\ resp'.status = 404
                   /\ UNCHANGED <<projects, notes, replies>>
           /\ (/\ resp.op = "delete_note"
               /\ resp.status = 200
               /\ resp.note_id = resp'.note_id)
              => (resp'.status = 404 /\ notes' = notes)]_vars

\* a delete was answered 404 for the id of a note that existed and was deleted
C4_Witness ==
    /\ resp.op = "delete_note"
    /\ resp.via = "call"
    /\ resp.status = 404
    /\ resp.note_id \in seen
    /\ notes # {}

NoteColumns ==
    {"id", "project_id", "project_name", "file_path", "line_number", "author",
     "user_id", "timestamp", "comment", "description", "cwe", "state",
     "severity", "source", "import_metadata", "created_at", "updated_at"}

\* the step is an update of an existing note that writes, for each mutable
\* column f, the value Written(f, old row), refreshes updated_at and leaves
\* every other column, every other note, the replies and the projects alone
UpdateWrites(Written(_, _)) ==
    (resp'.op = "update_note" /\ resp'.note_id \in NoteIds(notes))
    => /\ resp'.status = 200
       /\ \E old \in notes, new \in notes' :
            /\ old.id = resp'.note_id
            /\ new.id = resp'.note_id
            /\ \A f \in MutableFields : new[f] = Written(f, old)
            /\ new.updated_at = clock'
            /\ new.updated_at > old.updated_at
            /\ \A f \in NoteColumns \ (MutableFields \cup {"updated_at"}) :
                    new[f] = old[f]
            /\ notes' \ {new} = notes \ {old}
       /\ UNCHANGED <<projects, replies>>

\* C7 as claimed: update changes exactly the mutable fields that were
\* supplied (a field the body does not carry keeps its value) and the update
\* timestamp; id, creation timestamps, project, user_id, replies and every
\* other note are unchanged.
C7_UpdateChangesSuppliedFields ==
    [][LET Supplied(f, old) == IF f \in DOMAIN resp'.body THEN resp'.body[f] ELSE old[f]
       IN  UpdateWrites(Supplied)]_vars

\* C7 as amended: update sets every one of the nine mutable fields to the
\* value of the validated body, which is the supplied value or, for an
\* optional field the body does not carry, the default of the model (state
\* "todo", source "native", description, cwe and severity null), and
\* refreshes the update timestamp; id, creation timestamps, project, user_id,
\* replies and every other note are unchanged.
C7_UpdateWritesValidatedBody ==
    [][LET Validated(f, old) == ScrewNote(resp'.body)[f]
       IN  UpdateWrites(Validated)]_vars

\* a note created with a severity was updated by a body without one
C7_Witness ==
    /\ resp.op = "update_note"
    /\ resp.status = 200
    /\ "severity" \notin DOMAIN resp.body
    /\ \E n \in notes :
        /\ n.id = resp.note_id
        /\ n.import_metadata # NULL
        /\ n.severity = NULL
        /\ n.user_id # resp.body.user_id

(***************************************************************************)
(* C8: after any prior requests, when create succeeds for a note of        *)
(* project P, listByProject(P) returns that note with a replies array that *)
(* is empty (neither null nor absent), and its identifier is none that a   *)
(* note had before the create.                                             *)
(***************************************************************************)
C8_CreatedNoteIsFreshAndListed ==
    [][(resp'.op = "create_note" /\ resp'.status = 200)
        => /\ resp'.note.id \notin seen
           /\ \A s \in get_project_notes(projects', notes', replies',
                                          resp'.note.project_name) :
                \E i \in 1..Len(s) :
                    /\ s[i].id = resp'.note.id
                    /\ "replies" \in DOMAIN s[i]
                    /\ s[i].replies = JsonArray({})]_vars

\* a create whose body carried the id of an earlier note succeeded after
\* that note was stored and replied to
C8_Witness ==
    /\ resp.op = "create_note"
    /\ resp.status = 200
    /\ "id" \in DOMAIN resp.body
    /\ resp.body.id \in seen
    /\ resp.note.id # resp.body.id
    /\ Cardinality(seen) >= 2

(***************************************************************************)
(* C9: after replaceAll(P, []) succeeds, whatever requests came before     *)
(* (notes added to P by create or by replaceAll), listByProject(P) returns *)
(* an empty list and a project row named P exists.                         *)
(***************************************************************************)
C9_ReplaceAllWithNothing ==
    (resp.op = "replace_all_notes" /\ resp.status = 200 /\ SentNotes = <<>>)
    => /\ get_project_notes(projects, notes, replies, resp.project_name) = {<<>>}
       /\ \E p \in projects : p.name = resp.project_name

(***************************************************************************)
(* C10: for every existing note, with N the number of replies appended to  *)
(* it with success (N >= 0), getById of its identifier and listByProject   *)
(* of its project both return the note with exactly N replies.             *)
(***************************************************************************)
C10_RepliesCounted ==
    \A n \in notes :
        /\ get_note_by_id(notes, replies, n.id).status = 200
        /\ Cardinality(get_note_by_id(notes, replies, n.id).note.replies.items)
                = appended[n.id]
        /\ \A name \in ProjectsOfNote(projects, n) :
                \A s \in get_project_notes(projects, notes, replies, name) :
                    \E i \in 1..Len(s) :
                        /\ s[i].id = n.id
                        /\ Cardinality(s[i].replies.items) = appended[n.id]

(***************************************************************************)
(* C11: whether the project has no row yet, a row made by an earlier       *)
(* create, or a row made by an earlier replaceAll, create(note) for that   *)
(* project succeeds and leaves exactly one project row with that name.     *)
(***************************************************************************)
C11_CreateResolvesProject ==
    resp.op = "create_note"
    => /\ resp.status = 200
       /\ Cardinality({p \in projects : p.name = resp.body.project_name}) = 1

(***************************************************************************)
(* C12: when clearProject(P) succeeds, the number it returns is the number *)
(* of notes P held just before the call, and no note of P remains          *)
(* afterwards, whichever operation added the notes.                        *)
(***************************************************************************)
C12_ClearRemovesEveryNote ==
    [][\A p \in ProjectNames :
        (/\ resp'.op = "clear_project_notes"
         /\ resp'.project_name = p
         /\ resp'.status = 200)
        => /\ NotesOfProject(projects', notes', p) = {}
           /\ resp'.deleted_count = Cardinality(NotesOfProject(projects, notes, p))]_vars

(***************************************************************************)
(* C13: in every reachable state every stored note belongs to exactly one  *)
(* project: its project_id references one existing project row.            *)
(***************************************************************************)
C13_NoteReferencesOneProject ==
    \A n \in notes : Cardinality({p \in projects : p.id = n.project_id}) = 1

(***************************************************************************)
(* C17: listByProject(P) returns the notes newest first: of any two notes  *)
(* it returns, the one created later comes earlier in the list, also when  *)
(* the client sent a timestamp with the note.                              *)
(***************************************************************************)
C17_ListedNewestFirst ==
    \A p \in ProjectNames :
        \A s \in get_project_notes(projects, notes, replies, p) :
            \A i, j \in 1..Len(s) :
                s[i].created_at > s[j].created_at => i < j

\* a note was created from a body that carried a timestamp, into a project
\* whose list now has two notes
C17_Witness ==
    /\ resp.op = "create_note"
    /\ resp.status = 200
    /\ "timestamp" \in DOMAIN resp.body
    /\ \E s \in get_project_notes(projects, notes, replies, resp.body.project_name) :
            Len(s) = 2 /\ s[1].id = resp.note.id

(***************************************************************************)
(* C19: in every state with no request in progress, the total_notes that   *)
(* stats(P) reports is the number of notes listByProject(P) returns, for   *)
(* notes added by create and for notes added by replaceAll.                *)
(***************************************************************************)
C19_StatsAgreesWithList ==
    \A p \in ProjectNames :
        \A s \in get_project_notes(projects, notes, replies, p) :
            get_project_stats(notes, p) = Len(s)

(***************************************************************************)
(* C20: replaceAll(P, notes) and clearProject(P) leave the notes, the      *)
(* replies and the project rows of every other project Q unchanged, when   *)
(* they succeed and when replaceAll fails part-way through its inserts.    *)
(***************************************************************************)
RepliesOfProject(ps, ns, rs, name) ==
    {r \in rs : \E n \in NotesOfProject(ps, ns, name) : n.id = r.parent_id}

C20_OtherProjectsUntouched ==
    [][\A p \in ProjectNames :
        (/\ resp'.op \in {"replace_all_notes", "clear_project_notes"}
         /\ resp'.project_name = p)
        => \A q \in ProjectNames \ {p} :
            /\ NotesOfProject(projects', notes', q) = NotesOfProject(projects, notes, q)
            /\ RepliesOfProject(projects', notes', replies', q)
                    = RepliesOfProject(projects, notes, replies, q)
            /\ {r \in projects' : r.name = q} = {r \in projects : r.name = q}]_vars

\* a replaceAll failed after it had inserted a note, while another project
\* held notes
C20_Witness ==
    /\ resp.op = "replace_all_notes"
    /\ resp.status = 500
    /\ NotesOfProject(projects, notes, resp.project_name) # {}
    /\ \E q \in ProjectNames \ {resp.project_name} :
            NotesOfProject(projects, notes, q) # {}

(***************************************************************************)
(* C14: under every interleaving of concurrent append, delete,             *)
(* clearProject and replaceAll requests, no reply row is inserted for a    *)
(* parent note that does not exist at the moment of the insert; a delete   *)
(* of the parent that runs between the existence check of append and its   *)
(* insert does not lead to a stored reply.                                 *)
(***************************************************************************)
C14_ReplyInsertedUnderExistingParent ==
    [][\A r \in replies' \ replies : ParentExists(notes, r.parent_id)]_vars

(***************************************************************************)
(* C15: replaceAll is a sequence of statements that are committed one by   *)
(* one.  Its DELETE empties the project for every reader while the request *)
(* is still running, and neither a fault nor the end of the request undoes *)
(* what the statements before it wrote; so a project that held notes is    *)
(* seen with its old notes gone and the new ones not yet inserted.         *)
(***************************************************************************)
C15_StatementsCommitOneByOne ==
    [][\A w \in Workers :
        (tasks[w] # Idle /\ tasks[w].req.op = "replace_all_notes")
        => /\ (tasks[w].pc = "delete" /\ tasks'[w].pc = "project")
                => /\ get_project_stats(notes', tasks[w].req.project_name) = 0
                   /\ get_file_notes(notes', replies', tasks[w].req.project_name,
                                     "a.py") = {<<>>}
           /\ (tasks'[w].pc = "close" /\ tasks'[w].fault /\ ~tasks[w].fault)
                => db' = db
           /\ tasks'[w] = Idle => db' = db]_vars

\* a replaceAll with a non-empty list has deleted the notes its project held
\* and has inserted none yet, while a reader is about to count the notes of
\* the project: it finds none
C15_Witness ==
    \E w, v \in Workers :
        /\ tasks[w].pc \in {"project", "insert"}
        /\ tasks[w].req.op = "replace_all_notes"
        /\ tasks[w].req.data.notes # <<>>
        /\ tasks[w].rowcount > 0
        /\ tasks[w].ids = {}
        /\ tasks[v].pc = "count"
        /\ tasks[v].req.project_name = tasks[w].req.project_name
        /\ get_project_stats(notes, tasks[v].req.project_name) = 0

(***************************************************************************)
(* C16: every request that opened a database connection closes it on every *)
(* way out (success, 404, a fault at any statement): the open connections  *)
(* are those of the requests in progress, and none is open once every      *)
(* request has completed.                                                  *)
(***************************************************************************)
C16_ConnectionsReleased ==
    /\ conns = Cardinality(InFlight)
    /\ InFlight = {} => conns = 0

\* three requests that opened a connection have completed: one with success,
\* one with 404 and one with 500 after a fault
C16_Witness ==
    /\ InFlight = {}
    /\ \E a, b, c \in done :
        /\ a.connected /\ a.status = 200
        /\ b.connected /\ b.status = 404
        /\ c.connected /\ c.status = 500 /\ c.fault

(***************************************************************************)
(* C18: when two requests replaceAll(P, A) and replaceAll(P, B) with       *)
(* disjoint identifier sets run, one after the other or interleaved, and   *)
(* both complete with success, the notes of P are finally those of A or    *)
(* those of B, never a mixture or the union of the two.                    *)
(***************************************************************************)
\* the two requests served so far were bulk replaces a and b of one project,
\* both have completed with success, and they stored disjoint ids
TwoReplacesCompleted(a, b) ==
    /\ InFlight = {}
    /\ accepted = 2
    /\ done = {a, b}
    /\ a # b
    /\ a.req.op = "replace_all_notes" /\ a.status = 200
    /\ b.req.op = "replace_all_notes" /\ b.status = 200
    /\ a.req.project_name = b.req.project_name
    /\ a.ids \cap b.ids = {}

FinalIds(a) == NoteIds(NotesOfProject(projects, notes, a.req.project_name))

C18_LastWriterWins ==
    \A a, b \in done :
        TwoReplacesCompleted(a, b) => FinalIds(a) \in {a.ids, b.ids}

(***************************************************************************)
(* C18, amended: in that case the notes of P are finally notes of A and B  *)
(* only, and all of A or all of B are among them (the list of the request  *)
(* whose DELETE ran last); the result can be the union or a mixture.       *)
(***************************************************************************)
C18_LastDeleteKeepsItsList ==
    \A a, b \in done :
        TwoReplacesCompleted(a, b)
        => /\ FinalIds(a) \subseteq a.ids \cup b.ids
           /\ a.ids \subseteq FinalIds(a) \/ b.ids \subseteq FinalIds(a)

\* two interleaved bulk replaces have completed with success and left a
\* mixture: all notes of one list and a part of the other
C18_Witness ==
    \E a, b \in done :
        /\ TwoReplacesCompleted(a, b)
        /\ FinalIds(a) \notin {a.ids, b.ids, a.ids \cup b.ids}

====
